---- MODULE Spec2Model ----
(***************************************************************************)
(* Retrieval pipeline of docsscanAi: chunking, embedding cache, retrieval  *)
(* and question answering (rag_system.py, embeddings.py, llmser.py) and    *)
(* the clear handler of web_i.py.                                          *)
(*                                                                         *)
(* A text is a sequence of tokens: SP is one whitespace character, any     *)
(* other token is one word.  A string that is not document text (an id, a  *)
(* file name, a message) is a sequence of string pieces.                   *)
(***************************************************************************)
EXTENDS Integers, Sequences, FiniteSets, TLC

VARIABLES
    collection,   \* the "documents" collection of the vector index, in insertion order
    cache,        \* the files of cache_dir: file name -> file content
    last,         \* the observable outcome of the last call
    calls         \* number of calls made so far that can add to the index or the
                  \* cache (get_stats, chunk_text and clear_database are not counted)

vars == <<collection, cache, last, calls>>

\* ------------------------------------------------------------------ bounds

\* calls per behaviour of the embedding, ingest and question specifications
MaxEmbedCalls == 3

MaxIngestCalls == 2

MaxAskCalls == 2

\* add_document calls for the file with two equal chunks
MaxRepeatCalls == 1

\* chunk_text alone: texts of up to MaxWords words, chunk sizes and overlaps
\* up to MaxChunkSize.
MaxWords == 6

MaxChunkSize == 4

\* chunk indexes for which the chunk ids are compared
MaxChunkIndex == 11

\* ------------------------------------------------------------------ constants

SP == 0

default_chunk_size == 800

default_overlap == 100

Min(a, b) == IF a < b THEN a ELSE b

\* ------------------------------------------------------------------ str helpers

\* " ".join(words)
Join(words) ==
    [i \in 1..(2 * Len(words) - 1) |->
        IF i % 2 = 1 THEN words[(i + 1) \div 2] ELSE SP]

\* text.split()
Split(text) == SelectSeq(text, LAMBDA t : t # SP)

\* not text.strip()
IsBlank(text) == \A i \in 1..Len(text) : text[i] = SP

DigitChar == <<"0", "1", "2", "3", "4", "5", "6", "7", "8", "9">>

\* str(i) for an int i >= 0
RECURSIVE Str(_)
Str(i) ==
    IF i < 10 THEN <<DigitChar[i + 1]>>
    ELSE Str(i \div 10) \o <<DigitChar[(i % 10) + 1]>>

\* `needle in haystack` for Python strings given as sequences of pieces
Contains(haystack, needle) ==
    \E i \in 0..(Len(haystack) - Len(needle)) :
        SubSeq(haystack, i + 1, i + Len(needle)) = needle

\* ------------------------------------------------------------------ chunk_text

\* Mutant of chunk_text: the windows advance by one word more than the step.
chunk_text_skipping(text, chunk_size, overlap) ==
    IF IsBlank(text) THEN [raised |-> FALSE, value |-> <<>>]
    ELSE
        LET words == Split(text)
            n     == Len(words)
            step  == chunk_size - overlap + 1
        IN  IF n <= chunk_size THEN [raised |-> FALSE, value |-> <<text>>]
            ELSE IF step = 0 THEN [raised |-> TRUE, value |-> <<>>]
            ELSE IF step < 0 THEN [raised |-> FALSE, value |-> <<>>]
            ELSE [raised |-> FALSE,
                  value  |-> [j \in 1..((n + step - 1) \div step) |->
                                Join(SubSeq(words, (j - 1) * step + 1,
                                            Min((j - 1) * step + chunk_size, n)))]]

\* Mutant of chunk_text: a window takes one word more than chunk_size.
chunk_text_wide(text, chunk_size, overlap) ==
    IF IsBlank(text) THEN [raised |-> FALSE, value |-> <<>>]
    ELSE
        LET words == Split(text)
            n     == Len(words)
            step  == chunk_size - overlap
        IN  IF n <= chunk_size THEN [raised |-> FALSE, value |-> <<text>>]
            ELSE IF step = 0 THEN [raised |-> TRUE, value |-> <<>>]
            ELSE IF step < 0 THEN [raised |-> FALSE, value |-> <<>>]
            ELSE [raised |-> FALSE,
                  value  |-> [j \in 1..((n + step - 1) \div step) |->
                                Join(SubSeq(words, (j - 1) * step + 1,
                                            Min((j - 1) * step + chunk_size + 1, n)))]]

\* RAGSystem.chunk_text: [raised, value]; range() raises on a zero step and
\* is empty on a negative one.
chunk_text(text, chunk_size, overlap) ==
    IF IsBlank(text) THEN [raised |-> FALSE, value |-> <<>>]
    ELSE
        LET words == Split(text)
            n     == Len(words)
            step  == chunk_size - overlap
        IN  IF n <= chunk_size THEN [raised |-> FALSE, value |-> <<text>>]
            ELSE IF step = 0 THEN [raised |-> TRUE, value |-> <<>>]
            ELSE IF step < 0 THEN [raised |-> FALSE, value |-> <<>>]
            ELSE [raised |-> FALSE,
                  value  |-> [j \in 1..((n + step - 1) \div step) |->
                                Join(SubSeq(words, (j - 1) * step + 1,
                                            Min((j - 1) * step + chunk_size, n)))]]

\* ------------------------------------------------------------------ inputs

\* The files a caller can name.  "missing.txt" does not exist; "scan.png" has
\* an extension outside SUPPORTED_EXTENSIONS; the others are text files.
Files == {"missing.txt", "scan.png", "blank.txt", "note.txt", "long.txt", "rep.txt"}

\* Mutant of FileExists: the path is taken to exist without a look.
file_always_exists(f) == TRUE

\* Path(file_path).exists()
FileExists(f) == f # "missing.txt"

\* Path(file_path).name
PathName(f) ==
    CASE f = "missing.txt" -> <<"m", ".", "t", "x", "t">>
      [] f = "scan.png"    -> <<"s", ".", "p", "n", "g">>
      [] f = "blank.txt"   -> <<"b", ".", "t", "x", "t">>
      [] f = "note.txt"    -> <<"n", ".", "t", "x", "t">>
      [] f = "long.txt"    -> <<"l", ".", "t", "x", "t">>
      [] f = "rep.txt"     -> <<"r", ".", "t", "x", "t">>

\* The content of the text files: whitespace only; two words separated by two
\* spaces; one word more than a chunk holds; a single word repeated so that the
\* first two windows are equal.
FileText ==
    [f \in Files |->
        CASE f = "blank.txt" -> <<SP, SP>>
          [] f = "note.txt"  -> <<1, SP, SP, 2>>
          [] f = "long.txt"  -> Join([i \in 1..(default_chunk_size + 1) |-> i])
          [] f = "rep.txt"   -> Join([i \in 1..(2 * default_chunk_size - default_overlap) |-> 1])
          [] OTHER           -> <<>>]

\* DocumentProcessor.extract_text_from_file: [raised, value]
extract_text_from_file(f) ==
    IF f = "scan.png" THEN [raised |-> TRUE, value |-> <<>>]
    ELSE [raised |-> FALSE, value |-> FileText[f]]

\* "alpha beta gamma delta", the words numbered 11 to 14
AlphaText == <<11, SP, 12, SP, 13, SP, 14>>

\* Document names with underscores and digits: "a", "a_", "a_1", "a1", "1",
\* "1_1", "a_1_0"
IdNames ==
    {<<"a">>, <<"a", "_">>, <<"a", "_", "1">>, <<"a", "1">>, <<"1">>,
     <<"1", "_", "1">>, <<"a", "_", "1", "_", "0">>}

\* doc_name arguments; None is the absent argument
None == <<>>

DocNames == {None, <<"l", ".", "t", "x", "t">>}

\* A blank question, a one-word question, and the same with a trailing space.
Questions == {<<SP>>, <<901>>, <<901, SP>>}

\* The questions put to the knowledge base
AskedQuestions == {<<SP>>, <<901>>}

Models == {<<"voyage-2">>, <<"voyage-large-2">>}

default_model == <<"voyage-2">>

Vectors == {"v1", "v2"}

NoVec == "none"

\* Word lists for chunk_text: n different words, and n words of which every
\* second one is the same.
WordLists ==
    {[i \in 1..n |-> i] : n \in 0..MaxWords}
    \cup {[i \in 1..n |-> 1 + (i % 2)] : n \in 0..MaxWords}

\* The texts given to chunk_text: the words separated by single spaces, and
\* the same with whitespace around and doubled whitespace after the first word.
ChunkTexts ==
    {Join(w) : w \in WordLists}
    \cup {<<SP>> \o Join(w) \o <<SP, SP>> : w \in WordLists}
    \cup {<<w[1], SP, SP>> \o Join(Tail(w)) : w \in WordLists \ {<<>>}}

ChunkSizes == 0..MaxChunkSize

Overlaps == 0..MaxChunkSize

\* ------------------------------------------------------------------ embeddings.py

\* Every text the model can hash: the chunk texts first, then the questions.
HashedTexts ==
    chunk_text(FileText["note.txt"], default_chunk_size, default_overlap).value
    \o chunk_text(FileText["long.txt"], default_chunk_size, default_overlap).value
    \o chunk_text(FileText["rep.txt"], default_chunk_size, default_overlap).value
    \o <<<<901>>, <<901, SP>>, <<SP>>>>
    \o chunk_text(AlphaText, 2, 0).value

\* hashlib.md5(text.encode('utf-8')).hexdigest(): a digest of the exact text,
\* taken as collision-free on HashedTexts (the number of the first equal text).
md5(text) ==
    LET i == CHOOSE k \in 1..Len(HashedTexts) :
                 /\ HashedTexts[k] = text
                 /\ \A j \in 1..(k - 1) : HashedTexts[j] # text
    IN  <<"md5:">> \o Str(i)

\* Mutant of cache_file_of: the model is left out of the file name.
cache_file_without_model(text, model) == md5(text) \o <<".npy">>

\* cache_dir / f"{text_hash}_{model}.npy"
cache_file_of(text, model) == md5(text) \o <<"_">> \o model \o <<".npy">>

\* np.save: the file content written for a vector
np_save(v) == [npy |-> TRUE, data |-> v]

\* A file np.load cannot read (truncated, overwritten, ...)
Garbage == [npy |-> FALSE, data |-> NoVec]

\* np.load: [raised, value]
np_load(content) ==
    IF content.npy THEN [raised |-> FALSE, value |-> content.data]
    ELSE [raised |-> TRUE, value |-> NoVec]

\* Mutant of unlink: the corrupt file is left in place.
unlink_keeping_file(c, file) == c

\* cache_file.unlink(missing_ok=True), taken to succeed
unlink(c, file) == [k \in (DOMAIN c) \ {file} |-> c[k]]

\* What the embedding provider answers to one request.
EmbedResponses ==
    {[kind |-> "ok", vec |-> v] : v \in Vectors}
    \cup {[kind |-> "http", vec |-> NoVec]}

\* How np.save ends: the file written, or an exception and nothing written.
WriteOutcomes == {"saved", "failed"}

\* str(e) of the exception get_embedding raises for a failed request
EmbedError(resp) ==
    IF resp.kind = "http"
    THEN <<"Voyage AI ", "API error", ": ", "503", " - ", "unavailable">>
    ELSE <<"Embedding generation error: ", "Invalid API response format">>

\* The cache after np.save(cache_file, embedding) ended as `wr`
cache_after_save(c, file, v, wr) ==
    IF wr = "saved" THEN (file :> np_save(v)) @@ c ELSE c

\* Mutant of after_request: a failed request is sent a second time.
after_request_retrying(c, file, pre, resp, wr) ==
    IF resp.kind = "ok"
    THEN [cache |-> cache_after_save(c, file, resp.vec, wr),
          raised |-> FALSE, value |-> resp.vec, error |-> <<>>,
          requests |-> 1, pre |-> pre, resp |-> resp.kind, vec |-> resp.vec, write |-> wr]
    ELSE [cache |-> c,
          raised |-> TRUE, value |-> NoVec, error |-> EmbedError(resp),
          requests |-> 2, pre |-> pre, resp |-> resp.kind, vec |-> NoVec, write |-> "none"]

\* Mutant of after_request: the exception of np.save is not caught.
after_request_write_raising(c, file, pre, resp, wr) ==
    IF resp.kind = "ok" /\ wr = "saved"
    THEN [cache |-> cache_after_save(c, file, resp.vec, wr),
          raised |-> FALSE, value |-> resp.vec, error |-> <<>>,
          requests |-> 1, pre |-> pre, resp |-> resp.kind, vec |-> resp.vec, write |-> wr]
    ELSE IF resp.kind = "ok"
    THEN [cache |-> c,
          raised |-> TRUE, value |-> NoVec,
          error |-> <<"Embedding generation error: ", "No space left on device">>,
          requests |-> 1, pre |-> pre, resp |-> resp.kind, vec |-> resp.vec, write |-> wr]
    ELSE [cache |-> c,
          raised |-> TRUE, value |-> NoVec, error |-> EmbedError(resp),
          requests |-> 1, pre |-> pre, resp |-> resp.kind, vec |-> NoVec, write |-> "none"]

\* EmbeddingService.get_embedding after a request answered `resp`
after_request(c, file, pre, resp, wr) ==
    IF resp.kind = "ok"
    THEN [cache |-> cache_after_save(c, file, resp.vec, wr),
          raised |-> FALSE, value |-> resp.vec, error |-> <<>>,
          requests |-> 1, pre |-> pre, resp |-> resp.kind, vec |-> resp.vec, write |-> wr]
    ELSE [cache |-> c,
          raised |-> TRUE, value |-> NoVec, error |-> EmbedError(resp),
          requests |-> 1, pre |-> pre, resp |-> resp.kind, vec |-> NoVec, write |-> "none"]

\* get_embedding past its validation: the cache lookup and, on a miss or a
\* corrupt entry, the request. The set of possible outcomes [cache, raised,
\* value, error, requests] with what happened on the way: pre (the entry
\* found: "absent", "readable", "corrupt", or "unchecked"), resp and vec (the
\* provider's answer, "none" without a request) and write (how np.save ended).
cached_or_requested(c, text, model) ==
    LET file == cache_file_of(text, model)
        exists == file \in DOMAIN c
        loaded == IF exists THEN np_load(c[file]) ELSE [raised |-> TRUE, value |-> NoVec]
    IN  IF exists /\ ~loaded.raised
        THEN {[cache |-> c, raised |-> FALSE, value |-> loaded.value, error |-> <<>>,
               requests |-> 0, pre |-> "readable", resp |-> "none", vec |-> NoVec,
               write |-> "none"]}
        ELSE
            LET c1  == IF exists THEN unlink(c, file) ELSE c
                pre == IF exists THEN "corrupt" ELSE "absent"
            IN  {after_request(c1, file, pre, resp, "none") :
                    resp \in {r \in EmbedResponses : r.kind # "ok"}}
                \cup
                {after_request(c1, file, pre, resp, wr) :
                    resp \in {r \in EmbedResponses : r.kind = "ok"},
                    wr \in WriteOutcomes}

\* Mutant of get_embedding: the text is not validated.
get_embedding_unvalidated(c, text, model) == cached_or_requested(c, text, model)

\* EmbeddingService.get_embedding(text, model) on cache c: the set of possible
\* outcomes.
get_embedding(c, text, model) ==
    IF IsBlank(text)
    THEN {[cache |-> c, raised |-> TRUE, value |-> NoVec,
           error |-> <<"Text cannot be empty">>,
           requests |-> 0, pre |-> "unchecked", resp |-> "none", vec |-> NoVec,
           write |-> "none"]}
    ELSE cached_or_requested(c, text, model)

\* ------------------------------------------------------------------ vector index

\* collection.count()
count(coll) == Len(coll)

IdsOf(coll) == {coll[i].id : i \in 1..Len(coll)}

\* Mutant of collection_add: the records of the documents of the batch are
\* deleted before the batch is stored.
collection_add_replacing(coll, batch) ==
    SelectSeq(coll, LAMBDA r : \A j \in 1..Len(batch) :
                                    r.metadata.document # batch[j].metadata.document)
    \o batch

\* collection.add(embeddings, documents, metadatas, ids) that does not raise:
\* the records are appended in order; a record whose id is already stored is
\* left as it is.
RECURSIVE collection_add(_, _)
collection_add(coll, batch) ==
    IF batch = <<>> THEN coll
    ELSE collection_add(
            IF Head(batch).id \in IdsOf(coll) THEN coll ELSE Append(coll, Head(batch)),
            Tail(batch))

\* How one call of the index ends.
IndexOutcomes == {"ok", "raises"}

\* Cosine distance of two vectors, in units of 1/10000.
Distance(a, b) == IF a = b THEN 0 ELSE 4286

\* ------------------------------------------------------------------ add_document

\* Mutant of chunk_id: name and index are not separated.
chunk_id_unseparated(doc_id, i) == doc_id \o Str(i)

\* Mutant of chunk_id: the chunks are numbered from 1.
chunk_id_from_one(doc_id, i) == doc_id \o <<"_">> \o Str(i + 1)

\* f"{doc_id}_{i}"
chunk_id(doc_id, i) == doc_id \o <<"_">> \o Str(i)

\* The body of the loop over enumerate(chunks) for chunk number i (from 0)
\* whose get_embedding call ended as o.
embed_step(st, file, doc_id, i, o) ==
    IF o.raised
    THEN [st EXCEPT !.cache = o.cache,
                    !.requests = @ + o.requests,
                    !.chunk_requests = Append(@, o.requests),
                    !.obtained = Append(@, NoVec)]
    ELSE [cache      |-> o.cache,
          embeddings |-> Append(st.embeddings, o.value),
          chunk_ids  |-> Append(st.chunk_ids, chunk_id(doc_id, i)),
          metadatas  |-> Append(st.metadatas,
                                [document |-> doc_id, chunk_index |-> i, source |-> file]),
          requests   |-> st.requests + o.requests,
          chunk_requests |-> Append(st.chunk_requests, o.requests),
          obtained   |-> Append(st.obtained, o.value)]

\* The loop of add_document from chunk number i on: the set of its possible
\* final states.  obtained[i + 1] is the vector get_embedding returned for
\* chunk i, NoVec when it raised.
RECURSIVE embed_chunks(_, _, _, _, _)
embed_chunks(chunks, file, doc_id, i, st) ==
    IF i >= Len(chunks) THEN {st}
    ELSE UNION {embed_chunks(chunks, file, doc_id, i + 1, embed_step(st, file, doc_id, i, o)) :
                    o \in get_embedding(st.cache, chunks[i + 1], default_model)}

\* documents=chunks[:len(embeddings)]
documents_arg(chunks, embeddings) == SubSeq(chunks, 1, Len(embeddings))

\* Mutant of add_batch: only the first embedded chunk is handed to the index.
add_batch_first_only(chunks, st) ==
    LET documents == documents_arg(chunks, st.embeddings)
    IN  [j \in 1..1 |->
            [id        |-> st.chunk_ids[j],
             embedding |-> st.embeddings[j],
             document  |-> documents[j],
             metadata  |-> st.metadatas[j]]]

\* The records one collection.add call is given.
add_batch(chunks, st) ==
    LET documents == documents_arg(chunks, st.embeddings)
    IN  [j \in 1..Len(st.embeddings) |->
            [id        |-> st.chunk_ids[j],
             embedding |-> st.embeddings[j],
             document  |-> documents[j],
             metadata  |-> st.metadatas[j]]]

\* add_document returning False before the loop, after extract_calls calls of
\* the extractor
add_failed(coll, c, extract_calls) ==
    [collection |-> coll, cache |-> c, result |-> FALSE, doc_id |-> None,
     obtained |-> <<>>, batch |-> <<>>, requests |-> 0, chunk_requests |-> <<>>,
     add_calls |-> 0, extract_calls |-> extract_calls]

\* RAGSystem.add_document(file_path, doc_name): the set of possible outcomes.
add_document(coll, c, file, doc_name) ==
    IF ~FileExists(file) THEN {add_failed(coll, c, 0)}
    ELSE
        LET text == extract_text_from_file(file)
        IN  IF text.raised \/ IsBlank(text.value) THEN {add_failed(coll, c, 1)}
            ELSE
                LET chunks == chunk_text(text.value, default_chunk_size, default_overlap)
                IN  IF chunks.raised \/ chunks.value = <<>> THEN {add_failed(coll, c, 1)}
                    ELSE
                        LET doc_id == IF doc_name # None THEN doc_name ELSE PathName(file)
                            start  == [cache |-> c, embeddings |-> <<>>, chunk_ids |-> <<>>,
                                       metadatas |-> <<>>, requests |-> 0, chunk_requests |-> <<>>,
                                       obtained |-> <<>>]
                            ends   == embed_chunks(chunks.value, file, doc_id, 0, start)
                        IN  {[collection |-> coll, cache |-> st.cache, result |-> FALSE,
                              doc_id |-> doc_id, obtained |-> st.obtained, batch |-> <<>>,
                              requests |-> st.requests, chunk_requests |-> st.chunk_requests,
                              add_calls |-> 0,
                              extract_calls |-> 1] :
                                st \in {e \in ends : e.embeddings = <<>>}}
                            \cup
                            {[collection |-> IF how = "ok"
                                             THEN collection_add(coll, add_batch(chunks.value, st))
                                             ELSE coll,
                              cache |-> st.cache, result |-> (how = "ok"),
                              doc_id |-> doc_id, obtained |-> st.obtained,
                              batch |-> add_batch(chunks.value, st),
                              requests |-> st.requests, chunk_requests |-> st.chunk_requests,
                              add_calls |-> 1,
                              extract_calls |-> 1] :
                                st \in {e \in ends : e.embeddings # <<>>},
                                how \in IndexOutcomes}

\* ------------------------------------------------------------------ search_relevant_chunks

NResults == {0, 1, 2}

\* search_relevant_chunks returning []; swallowed tells that it caught an
\* exception on the way.
no_chunks(c, swallowed, requests, queries) ==
    [cache |-> c, value |-> <<>>, swallowed |-> swallowed,
     embed_requests |-> requests, queries |-> queries,
     qvec |-> NoVec, returned |-> <<>>]

\* collection.query(query_embeddings=[qv], n_results=n) that does not raise:
\* n stored records, nearest first, ties in any order.
query_results(coll, qv, n) ==
    {[j \in 1..n |-> coll[s[j]]] :
        s \in {t \in [1..n -> 1..Len(coll)] :
                /\ \A i, j \in 1..n : i # j => t[i] # t[j]
                /\ \A i \in 1..(n - 1) :
                      Distance(qv, coll[t[i]].embedding) <= Distance(qv, coll[t[i + 1]].embedding)
                /\ \A k \in 1..Len(coll) :
                      (\A i \in 1..n : t[i] # k) =>
                          Distance(qv, coll[t[n]].embedding) <= Distance(qv, coll[k].embedding)}}

\* Mutant of chunk_of: the distance is given as the similarity.
chunk_of_distance(qv, r) ==
    [text |-> r.document, metadata |-> r.metadata,
     similarity |-> Distance(qv, r.embedding)]

\* One entry of the list search_relevant_chunks returns; the similarity
\* 1 - distance is in units of 1/10000.
chunk_of(qv, r) ==
    [text |-> r.document, metadata |-> r.metadata,
     similarity |-> 10000 - Distance(qv, r.embedding)]

\* search_relevant_chunks from the query on, the question embedded as o;
\* qvec is the query vector and returned the ids of the records in the order
\* the index gave them.
search_query(coll, o, n_results) ==
    LET n == Min(n_results, count(coll))
    IN  {no_chunks(o.cache, TRUE, o.requests, 1)}
        \cup
        (IF n <= 0 THEN {}
         ELSE {[cache |-> o.cache,
                value |-> [j \in 1..n |-> chunk_of(o.value, res[j])],
                swallowed |-> FALSE,
                embed_requests |-> o.requests, queries |-> 1,
                qvec |-> o.value, returned |-> [j \in 1..n |-> res[j].id]] :
                    res \in query_results(coll, o.value, n)})

\* Mutant of search_relevant_chunks: no early return on an empty collection.
search_without_count_check(coll, c, question, n_results) ==
    IF IsBlank(question) THEN {no_chunks(c, TRUE, 0, 0)}
    ELSE {no_chunks(c, TRUE, 0, 0)}
         \cup
         UNION {IF o.raised THEN {no_chunks(o.cache, TRUE, o.requests, 0)}
                ELSE search_query(coll, o, n_results) :
                    o \in get_embedding(c, question, default_model)}

\* RAGSystem.search_relevant_chunks(question, n_results): the set of possible
\* outcomes.  count() or query() may raise, and query() raises for n_results < 1.
search_relevant_chunks(coll, c, question, n_results) ==
    IF IsBlank(question) THEN {no_chunks(c, TRUE, 0, 0)}
    ELSE {no_chunks(c, TRUE, 0, 0)}
         \cup
         (IF count(coll) = 0 THEN {no_chunks(c, FALSE, 0, 0)}
          ELSE UNION {IF o.raised THEN {no_chunks(o.cache, TRUE, o.requests, 0)}
                      ELSE search_query(coll, o, n_results) :
                          o \in get_embedding(c, question, default_model)})

\* ------------------------------------------------------------------ llmser.py

\* What the generation provider answers to one request: a text, a blank
\* text, an error status, no connection, a payload without candidates.
LLMResponses == {"ok", "empty", "http", "conn", "malformed"}

\* The message of a failed generation request
FailureMessage(kind) ==
    CASE kind = "http"      -> <<"503", " - ", "overloaded">>
      [] kind = "conn"      -> <<"read timed out">>
      [] kind = "malformed" -> <<"invalid response format">>
      [] kind = "empty"     -> <<"empty response">>
      [] OTHER              -> <<>>

\* The handlers of generate_answer: str(e) of the exception it raises
generate_error(kind) ==
    IF kind \in {"http", "conn"}
    THEN <<"gemini ", "API error", ": ">> \o FailureMessage(kind)
    ELSE IF \/ Contains(FailureMessage(kind), <<"API error">>)
            \/ Contains(FailureMessage(kind), <<"connection error">>)
         THEN FailureMessage(kind)
         ELSE <<"gen error: ">> \o FailureMessage(kind)

\* LLMService.generate_answer(question, context): the set of possible outcomes;
\* blank tells whether context.strip() is empty.
generate_answer(question, blank) ==
    IF IsBlank(question)
    THEN {[raised |-> TRUE, value |-> <<>>, error |-> <<"question cannot be empty">>,
           requests |-> 0, resp |-> "none"]}
    ELSE IF blank
    THEN {[raised |-> TRUE, value |-> <<>>, error |-> <<"context cannot be empty">>,
           requests |-> 0, resp |-> "none"]}
    ELSE {IF kind = "ok"
          THEN [raised |-> FALSE, value |-> <<"generated answer">>, error |-> <<>>,
                requests |-> 1, resp |-> kind]
          ELSE [raised |-> TRUE, value |-> <<>>, error |-> generate_error(kind),
                requests |-> 1, resp |-> kind] :
              kind \in LLMResponses}

\* ------------------------------------------------------------------ ask_question

NoInfoAnswer == <<"Sorry, no relevant information found in the knowledge base.">>

\* round(x, 3) of a similarity in units of 1/10000, in units of 1/1000
Round3(x) ==
    LET q == x \div 10
        r == x % 10
    IN  IF r > 5 \/ (r = 5 /\ q % 2 = 1) THEN q + 1 ELSE q

\* Mutant of context_parts: the fragments are numbered from 0.
context_parts_from_zero(chunks) ==
    [j \in 1..Len(chunks) |->
        [head |-> <<"Fragment ">> \o Str(j - 1) \o <<":\n">>, text |-> chunks[j].text]]

\* context_parts: f"Fragment {i}:\n{chunk['text']}", the text kept apart
context_parts(chunks) ==
    [j \in 1..Len(chunks) |->
        [head |-> <<"Fragment ">> \o Str(j) \o <<":\n">>, text |-> chunks[j].text]]

\* The context is a sequence of pieces: literal strings and chunk texts.
Lit(str) == [lit |-> str, text |-> <<>>]

Txt(text) == [lit |-> "", text |-> text]

\* One element of context_parts as pieces
part_pieces(part) ==
    [k \in 1..Len(part.head) |-> Lit(part.head[k])] \o <<Txt(part.text)>>

\* sep.join(parts)
RECURSIVE join(_, _)
join(sep, parts) ==
    IF parts = <<>> THEN <<>>
    ELSE IF Len(parts) = 1 THEN parts[1]
    ELSE parts[1] \o <<sep>> \o join(sep, Tail(parts))

\* context = "\n\n".join(context_parts)
context_of(chunks) ==
    join(Lit("\n\n"),
         [j \in 1..Len(chunks) |-> part_pieces(context_parts(chunks)[j])])

sources_of(chunks) ==
    [j \in 1..Len(chunks) |->
        [document |-> chunks[j].metadata.document,
         similarity |-> Round3(chunks[j].similarity)]]

\* Mutant of ask_error: the exception leaves ask_question.
ask_error_raising(s, error, llm) ==
    [cache |-> s.cache, raised |-> TRUE,
     answer |-> <<>>, sources |-> <<>>, chunks_used |-> 0,
     context |-> context_of(s.value),
     retrieved |-> s.value, swallowed |-> s.swallowed,
     embed_requests |-> s.embed_requests, queries |-> s.queries,
     llm_requests |-> llm.requests, llm |-> llm.resp]

\* The except branch of ask_question; context is the context built from the
\* fragments of s, empty when nothing was retrieved.
ask_error(s, error, llm) ==
    [cache |-> s.cache, raised |-> FALSE,
     answer |-> <<"Error processing question: ">> \o error,
     sources |-> <<>>, chunks_used |-> 0,
     context |-> context_of(s.value),
     retrieved |-> s.value, swallowed |-> s.swallowed,
     embed_requests |-> s.embed_requests, queries |-> s.queries,
     llm_requests |-> llm.requests, llm |-> llm.resp]

NoLLM == [requests |-> 0, resp |-> "none"]

\* Mutant of ask_after_search: no early return on an empty retrieval.
ask_after_search_always_generating(question, s) ==
    {IF g.raised THEN ask_error(s, g.error, g)
     ELSE [cache |-> s.cache, raised |-> FALSE,
           answer |-> g.value, sources |-> sources_of(s.value),
           chunks_used |-> Len(s.value),
           context |-> context_of(s.value),
           retrieved |-> s.value, swallowed |-> s.swallowed,
           embed_requests |-> s.embed_requests, queries |-> s.queries,
           llm_requests |-> g.requests, llm |-> g.resp] :
         g \in generate_answer(question, context_parts(s.value) = <<>>)}

\* ask_question after search_relevant_chunks returned s
ask_after_search(question, s) ==
    IF s.value = <<>>
    THEN {[cache |-> s.cache, raised |-> FALSE,
           answer |-> NoInfoAnswer, sources |-> <<>>, chunks_used |-> 0,
           context |-> <<>>,
           retrieved |-> s.value, swallowed |-> s.swallowed,
           embed_requests |-> s.embed_requests, queries |-> s.queries,
           llm_requests |-> 0, llm |-> "none"]}
    ELSE {IF g.raised THEN ask_error(s, g.error, g)
          ELSE [cache |-> s.cache, raised |-> FALSE,
                answer |-> g.value, sources |-> sources_of(s.value),
                chunks_used |-> Len(s.value),
                context |-> context_of(s.value),
                retrieved |-> s.value, swallowed |-> s.swallowed,
                embed_requests |-> s.embed_requests, queries |-> s.queries,
                llm_requests |-> g.requests, llm |-> g.resp] :
              g \in generate_answer(question, context_parts(s.value) = <<>>)}

\* RAGSystem.ask_question(question, n_results): the set of possible outcomes
ask_question(coll, c, question, n_results) ==
    IF IsBlank(question)
    THEN {ask_error(no_chunks(c, FALSE, 0, 0), <<"Question cannot be empty">>, NoLLM)}
    ELSE UNION {ask_after_search(question, s) :
                    s \in search_relevant_chunks(coll, c, question, n_results)}

\* ------------------------------------------------------------------ web_i.py

\* Mutant of clear_database: the cache directory is emptied with the index.
clear_database_with_cache(coll, c, how) ==
    IF how = "ok" THEN [collection |-> <<>>, cache |-> <<>>, success |-> TRUE]
    ELSE [collection |-> coll, cache |-> c, success |-> FALSE]

\* clear_database of web_i.py when the index calls end as `how`:
\* delete_collection and get_or_create_collection, the cache not touched.
clear_database(coll, c, how) ==
    IF how = "ok" THEN [collection |-> <<>>, cache |-> c, success |-> TRUE]
    ELSE [collection |-> coll, cache |-> c, success |-> FALSE]

\* ------------------------------------------------------------------ get_stats

\* min(1000, count): the most records get_stats reads
sample_limit == 1000

\* collection.get(limit=n): the first n records
collection_get(coll, n) == SubSeq(coll, 1, Min(n, Len(coll)))

\* Mutant of documents_of: the records are told apart by id, not by document.
documents_by_id(sample) == {sample[i].id : i \in 1..Len(sample)}

\* {meta['document'] for meta in results['metadatas'] ...}
documents_of(sample) == {sample[i].metadata.document : i \in 1..Len(sample)}

\* list(documents) of a set: its elements once each, in an order the
\* program does not choose (the iteration order of a set of str follows the
\* hashes, which differ from one interpreter run to the next).
list_of(set) ==
    {f \in [1..Cardinality(set) -> set] :
        \A i, j \in 1..Cardinality(set) : i # j => f[i] # f[j]}

\* RAGSystem.get_stats(): the set of possible outcomes; swallowed tells that
\* the index raised and the except branch answered.
get_stats(coll) ==
    {[total_chunks |-> 0, total_documents |-> 0, documents |-> <<>>, swallowed |-> TRUE]}
    \cup
    LET documents == IF count(coll) > 0
                     THEN documents_of(collection_get(coll, Min(sample_limit, count(coll))))
                     ELSE {}
    IN  {[total_chunks |-> count(coll), total_documents |-> Cardinality(documents),
          documents |-> names, swallowed |-> FALSE] :
            names \in list_of(documents)}

\* ------------------------------------------------------------------ the system

Idle == [op |-> "none"]

\* After construction: nothing ingested, nothing cached.
Init ==
    /\ collection = <<>>
    /\ cache = <<>>
    /\ last = Idle
    /\ calls = 0

\* A caller invokes EmbeddingService.get_embedding(text, model).
GetEmbeddingOf(texts, models, limit) ==
    /\ calls < limit
    /\ \E text \in texts, model \in models :
        \E o \in get_embedding(cache, text, model) :
            /\ cache' = o.cache
            /\ last' = [op |-> "get_embedding", text |-> text, model |-> model,
                        before |-> cache, after |-> o.cache,
                        raised |-> o.raised, value |-> o.value, error |-> o.error,
                        requests |-> o.requests, resp |-> o.resp, vec |-> o.vec,
                        write |-> o.write]
    /\ calls' = calls + 1
    /\ UNCHANGED collection

\* Something outside the program damages a file of cache_dir.
CorruptCacheFile ==
    /\ \E file \in DOMAIN cache :
        /\ cache[file] # Garbage
        /\ cache' = [cache EXCEPT ![file] = Garbage]
    /\ UNCHANGED <<collection, last, calls>>

\* A caller invokes RAGSystem.add_document(file_path, doc_name).
AddDocumentFrom(inputs, limit) ==
    /\ calls < limit
    /\ \E in \in inputs :
        \E o \in add_document(collection, cache, in[1], in[2]) :
            /\ collection' = o.collection
            /\ cache' = o.cache
            /\ last' = [op |-> "add_document", file |-> in[1], doc_name |-> in[2],
                        result |-> o.result, doc_id |-> o.doc_id,
                        obtained |-> o.obtained, batch |-> o.batch,
                        requests |-> o.requests, chunk_requests |-> o.chunk_requests,
                        add_calls |-> o.add_calls,
                        extract_calls |-> o.extract_calls,
                        ids_before |-> IdsOf(collection),
                        cache_before |-> cache, prev_op |-> last.op,
                        kept |-> (o.collection = collection /\ o.cache = cache),
                        records_kept |-> (o.collection = collection),
                        prior_kept |-> /\ Len(o.collection) >= Len(collection)
                                       /\ \A i \in 1..Len(collection) :
                                             o.collection[i] = collection[i]]
    /\ calls' = calls + 1

\* DELETE /api/clear: the collection is deleted and created again, or the
\* index raises and the handler answers 500.  The call adds nothing to the
\* index or the cache and is not counted.
ClearDatabase ==
    /\ \E how \in IndexOutcomes :
        LET o == clear_database(collection, cache, how)
        IN  /\ collection' = o.collection
            /\ cache' = o.cache
            /\ last' = [op |-> "clear_database", success |-> o.success,
                        cache_before |-> cache, removed |-> count(collection) - count(o.collection)]
    /\ UNCHANGED calls

\* A caller invokes RAGSystem.get_stats(); the call changes nothing.
GetStats ==
    /\ \E o \in get_stats(collection) :
        last' = [op |-> "get_stats", total_chunks |-> o.total_chunks,
                 total_documents |-> o.total_documents, documents |-> o.documents,
                 swallowed |-> o.swallowed]
    /\ UNCHANGED <<collection, cache, calls>>

\* A caller invokes RAGSystem.search_relevant_chunks(question, n_results).
SearchRelevantChunks ==
    /\ calls < MaxAskCalls
    /\ \E question \in AskedQuestions, n_results \in NResults :
        \E o \in search_relevant_chunks(collection, cache, question, n_results) :
            /\ cache' = o.cache
            /\ last' = [op |-> "search_relevant_chunks", question |-> question,
                        n_results |-> n_results, stored |-> count(collection),
                        value |-> o.value, swallowed |-> o.swallowed,
                        embed_requests |-> o.embed_requests, queries |-> o.queries,
                        qvec |-> o.qvec, returned |-> o.returned]
    /\ calls' = calls + 1
    /\ UNCHANGED collection

\* A caller invokes RAGSystem.ask_question(question, n_results).
AskQuestion ==
    /\ calls < MaxAskCalls
    /\ \E question \in AskedQuestions, n_results \in NResults :
        \E o \in ask_question(collection, cache, question, n_results) :
            /\ cache' = o.cache
            /\ last' = [op |-> "ask_question", question |-> question,
                        n_results |-> n_results, stored |-> count(collection),
                        raised |-> o.raised, answer |-> o.answer,
                        sources |-> o.sources, chunks_used |-> o.chunks_used,
                        context |-> o.context,
                        retrieved |-> o.retrieved, swallowed |-> o.swallowed,
                        embed_requests |-> o.embed_requests, queries |-> o.queries,
                        llm_requests |-> o.llm_requests, llm |-> o.llm]
    /\ calls' = calls + 1
    /\ UNCHANGED collection

\* A caller invokes RAGSystem.chunk_text(text, chunk_size, overlap); the
\* function keeps no state, so one call per behaviour covers it.
ChunkText ==
    /\ last = Idle
    /\ \E text \in ChunkTexts, chunk_size \in ChunkSizes, overlap \in Overlaps :
        LET o == chunk_text(text, chunk_size, overlap)
        IN  last' = [op |-> "chunk_text", text |-> text, chunk_size |-> chunk_size,
                     overlap |-> overlap, raised |-> o.raised, value |-> o.value]
    /\ UNCHANGED <<collection, cache, calls>>

\* The embedding service alone, with a cache directory that can be damaged.
GetEmbedding == GetEmbeddingOf(Questions, Models, MaxEmbedCalls)

NextEmbed == GetEmbedding \/ CorruptCacheFile

SpecEmbed == Init /\ [][NextEmbed]_vars

\* Ingest: every file but the three-chunk one, under its own name, and the
\* one-chunk file under the name of the two-chunk one.
IngestInputs ==
    {<<f, None>> : f \in Files \ {"rep.txt"}}
    \cup {<<"note.txt", <<"l", ".", "t", "x", "t">>>>}

IngestDocument == AddDocumentFrom(IngestInputs, MaxIngestCalls)

NextIngest == IngestDocument \/ ClearDatabase \/ GetStats

SpecIngest == Init /\ [][NextIngest]_vars

\* Questions against a knowledge base of the one-chunk document under two
\* names and the two-chunk document, the cache filled by earlier calls or not.
AskInputs == {<<"note.txt", n>> : n \in DocNames} \cup {<<"long.txt", None>>}

SeedDocument == AddDocumentFrom(AskInputs, MaxAskCalls)

\* An earlier question left its embedding in the cache: search_relevant_chunks
\* embeds with the default model.
WarmCache == GetEmbeddingOf(AskedQuestions, {default_model}, MaxAskCalls)

NextAsk == SeedDocument \/ WarmCache \/ SearchRelevantChunks \/ AskQuestion

SpecAsk == Init /\ [][NextAsk]_vars

\* Ingest of the file whose first two chunks have the same text.
IngestRepeated == AddDocumentFrom({<<"rep.txt", None>>}, MaxRepeatCalls)

NextRepeat == IngestRepeated

SpecRepeat == Init /\ [][NextRepeat]_vars

\* The chunker alone, on every text, chunk size and overlap of the bounds.
NextChunk == ChunkText

SpecChunk == Init /\ [][NextChunk]_vars

\* ------------------------------------------------------------------ claims: ingest

\* The chunks add_document works on for a file
FileChunks ==
    [f \in Files |->
        chunk_text(extract_text_from_file(f).value, default_chunk_size, default_overlap).value]

ChunksOf(file) == FileChunks[file]

Stored == {collection[i] : i \in 1..Len(collection)}

Embedded(l) == {i \in 1..Len(l.obtained) : l.obtained[i] # NoVec}

\* C1: after add_document returned True, every record it added is consistent:
\* the record with id "{doc}_{i}" holds the text of chunk i, the vector
\* get_embedding returned for chunk i and chunk_index = i.
C1_RecordsConsistent ==
    (last.op = "add_document" /\ last.result) =>
        \A j \in 1..Len(last.batch) :
            LET r == last.batch[j]
                i == r.metadata.chunk_index
            IN  r \in Stored =>
                    /\ r.id = chunk_id(last.doc_id, i)
                    /\ r.document = ChunksOf(last.file)[i + 1]
                    /\ r.embedding = last.obtained[i + 1]

\* C4: an add_document call in which some but not all chunks were embedded
\* does not return what a call with every chunk embedded returns (True).
C4_PartialFailureObservable ==
    (/\ last.op = "add_document"
     /\ Embedded(last) # {}
     /\ Embedded(last) # 1..Len(last.obtained)) =>
        last.result # TRUE

\* The loop of add_document and the batch it builds for the chunks of
\* "alpha beta gamma delta" with size 2 and overlap 0, document name "doc",
\* on an empty cache: the batches of the runs in which every embedding call
\* succeeded.
AlphaBatches ==
    LET chunks == chunk_text(AlphaText, 2, 0).value
        start  == [cache |-> <<>>, embeddings |-> <<>>, chunk_ids |-> <<>>,
                   metadatas |-> <<>>, requests |-> 0, chunk_requests |-> <<>>,
                   obtained |-> <<>>]
    IN  {add_batch(chunks, st) :
            st \in {e \in embed_chunks(chunks, "note.txt", <<"doc">>, 0, start) :
                        \A k \in 1..Len(e.obtained) : e.obtained[k] # NoVec}}

C16_FailFast ==
    last.op = "add_document" =>
        /\ last.file = "missing.txt" =>
                /\ ~last.result
                /\ last.extract_calls = 0
                /\ last.obtained = <<>> /\ last.requests = 0
                /\ last.add_calls = 0
                /\ last.kept
        /\ (last.file \notin {"missing.txt", "scan.png"} /\ IsBlank(FileText[last.file])) =>
                /\ ~last.result
                /\ last.extract_calls = 1
                /\ last.obtained = <<>> /\ last.requests = 0
                /\ last.add_calls = 0
                /\ last.kept

\* A missing path refused while the index holds records and the cache entries.
C16_Witness ==
    /\ last.op = "add_document"
    /\ last.file = "missing.txt"
    /\ ~last.result
    /\ collection # <<>>
    /\ cache # <<>>

\* The ids "{doc_id}_{i}" stored before the last add_document call with i not
\* below the number of chunks of that call
StaleIds ==
    LET m == Len(ChunksOf(last.file))
    IN  {id \in last.ids_before :
            \E i \in m..(m + Cardinality(last.ids_before)) :
                id = last.doc_id \o <<"_">> \o Str(i)}

\* Some search_relevant_chunks call on the present index returns the record
Retrievable(id) ==
    \E o \in search_relevant_chunks(collection, cache, <<901>>, count(collection)) :
        \E j \in 1..Len(o.returned) : o.returned[j] = id

\* C21: an add_document call under a name that was ingested before with more
\* chunks removes nothing: every record stored before the call is stored
\* unchanged after it, so the records "{name}_{m}" ... "{name}_{n-1}" of the
\* earlier ingest are still in the index and retrieval can return them.
C21_StaleRecordsKept ==
    (last.op = "add_document" /\ last.doc_id # None) =>
        /\ last.prior_kept
        /\ \A id \in StaleIds :
              /\ id \in IdsOf(collection)
              /\ Retrievable(id)

\* The one-chunk file ingested under the name of the stored two-chunk document.
C21_Witness ==
    /\ last.op = "add_document"
    /\ last.file = "note.txt"
    /\ last.result
    /\ StaleIds = {<<"l", ".", "t", "x", "t", "_", "1">>}
    /\ Retrievable(<<"l", ".", "t", "x", "t", "_", "1">>)

\* The chunks of the last add_document call whose vector was readable in the
\* cache before the call
CachedBefore ==
    {i \in 1..Len(ChunksOf(last.file)) :
        LET f == cache_file_of(ChunksOf(last.file)[i], default_model)
        IN  f \in DOMAIN last.cache_before /\ last.cache_before[f].npy}

\* C22: clear_database leaves every cache entry as it was, and an
\* add_document call obtains the vector of every chunk whose text has a
\* readable cache entry from that entry, with requests only for the other
\* chunks, whatever document the entry was written for.
C22_CacheOutlivesCorpus ==
    /\ last.op = "clear_database" =>
            /\ cache = last.cache_before
            /\ last.success => collection = <<>>
    /\ (last.op = "add_document" /\ last.doc_id # None) =>
            /\ \A i \in CachedBefore :
                  last.obtained[i] =
                      last.cache_before[cache_file_of(ChunksOf(last.file)[i], default_model)].data
            /\ last.requests <= Len(ChunksOf(last.file)) - Cardinality(CachedBefore)

\* After a clear, a document of another name with the same text ingested
\* into the empty index without a request.
C22_Witness ==
    /\ last.op = "add_document"
    /\ last.prev_op = "clear_database"
    /\ last.ids_before = {}
    /\ last.doc_id = <<"l", ".", "t", "x", "t">>
    /\ last.file = "note.txt"
    /\ CachedBefore = {1}
    /\ last.requests = 0
    /\ last.result

\* C23: within one add_document call, after a request for a chunk succeeded,
\* a later chunk with the same text gets the same vector without another
\* request, however the cache write after the first request ended.
C23_OneRequestPerText ==
    (last.op = "add_document" /\ last.doc_id # None) =>
        \A i, j \in 1..Len(last.obtained) :
            (/\ i < j
             /\ ChunksOf(last.file)[i] = ChunksOf(last.file)[j]
             /\ last.chunk_requests[i] = 1
             /\ last.obtained[i] # NoVec) =>
                /\ last.chunk_requests[j] = 0
                /\ last.obtained[j] = last.obtained[i]

\* C25: add_document returns True only after exactly one collection.add
\* call, given one record per embedded chunk and at least one; whenever it
\* returns False (missing path, failed extraction, blank text, no chunk
\* embedded, add call raising) the index holds the records it held before.
C25_AllOrNothing ==
    last.op = "add_document" =>
        /\ last.result =>
                /\ last.add_calls = 1
                /\ Len(last.batch) = Cardinality(Embedded(last))
                /\ Len(last.batch) >= 1
        /\ ~last.result =>
                /\ last.records_kept
                /\ (last.add_calls = 0) = (Embedded(last) = {})

\* The add call raised for a batch of two records, the index not empty.
C25_Witness ==
    /\ last.op = "add_document"
    /\ ~last.result
    /\ last.add_calls = 1
    /\ Cardinality(Embedded(last)) = 2
    /\ collection # <<>>
    /\ last.records_kept

\* ------------------------------------------------------------------ claims: get_stats

\* The last call was a get_stats call the index answered.
StatsGiven == last.op = "get_stats" /\ ~last.swallowed

\* The document names of the stored records
StoredDocuments == {collection[i].metadata.document : i \in 1..Len(collection)}

\* C19: get_stats, the index answering, reports a chunk count equal to the
\* number of stored records and, while no more than 1000 records are stored,
\* a document count equal to the number of different document names stored;
\* two one-chunk documents of different names give 2 and 2.
C19_StatsCounts ==
    StatsGiven =>
        /\ last.total_chunks = count(collection)
        /\ count(collection) <= 1000 =>
                last.total_documents = Cardinality(StoredDocuments)

\* Two one-chunk documents of different names counted.
C19_Witness ==
    /\ StatsGiven
    /\ count(collection) = 2
    /\ collection[1].metadata.document # collection[2].metadata.document
    /\ last.total_chunks = 2
    /\ last.total_documents = 2

\* ord() of the characters of the document names
Ord(ch) ==
    CASE ch = "." -> 46
      [] ch = "_" -> 95
      [] ch = "b" -> 98
      [] ch = "g" -> 103
      [] ch = "l" -> 108
      [] ch = "n" -> 110
      [] ch = "p" -> 112
      [] ch = "r" -> 114
      [] ch = "s" -> 115
      [] ch = "t" -> 116
      [] ch = "x" -> 120

\* a <= b for two str
RECURSIVE StrLeq(_, _)
StrLeq(a, b) ==
    IF a = <<>> THEN TRUE
    ELSE IF b = <<>> THEN FALSE
    ELSE IF a[1] = b[1] THEN StrLeq(Tail(a), Tail(b))
    ELSE Ord(a[1]) < Ord(b[1])

\* C20: the document name list of get_stats is sorted and holds each
\* different stored document name exactly once.
C20_DocumentsSorted ==
    StatsGiven =>
        /\ {last.documents[i] : i \in 1..Len(last.documents)} = StoredDocuments
        /\ Len(last.documents) = Cardinality(StoredDocuments)
        /\ \A i \in 1..(Len(last.documents) - 1) :
              StrLeq(last.documents[i], last.documents[i + 1])

\* ------------------------------------------------------------------ claims: questions

\* The retrieval of the last ask_question call ended in a caught exception.
RetrievalFailed(l) == ~IsBlank(l.question) /\ l.swallowed

GenerationFailed(l) == l.llm \in LLMResponses \ {"ok"}

\* C2: ask_question never raises; for a blank question and for any failure of
\* the embedding provider, the index or the generation provider it returns an
\* answer string with no sources and chunks_used = 0, and the answer to a
\* generation failure contains that failure's message.
C2_AskNeverRaises ==
    last.op = "ask_question" =>
        /\ ~last.raised
        /\ last.answer # <<>>
        /\ (IsBlank(last.question) \/ RetrievalFailed(last) \/ GenerationFailed(last)) =>
                (last.sources = <<>> /\ last.chunks_used = 0)
        /\ GenerationFailed(last) => Contains(last.answer, FailureMessage(last.llm))

C2_Witness ==
    /\ last.op = "ask_question"
    /\ last.llm = "malformed"
    /\ last.retrieved # <<>>
    /\ Contains(last.answer, <<"invalid response format">>)

\* C3: a retrieval that failed on a non-empty index does not end in the
\* outcome ask_question has for an empty retrieval.
C3_FailureDistinguishable ==
    (last.op = "ask_question" /\ last.stored > 0 /\ RetrievalFailed(last)) =>
        ~(last.answer = NoInfoAnswer /\ last.sources = <<>> /\ last.chunks_used = 0)

\* C5: in ask_question a retrieval without results ends in the fixed answer
\* with no sources and no request to the generation provider; the provider
\* is requested only after at least one fragment was retrieved, and then once.
C5_GenerateOnlyWithFragments ==
    last.op = "ask_question" =>
        /\ (~IsBlank(last.question) /\ last.retrieved = <<>>) =>
                /\ last.llm_requests = 0
                /\ last.answer = NoInfoAnswer
                /\ last.sources = <<>>
        /\ last.llm_requests > 0 => last.retrieved # <<>>
        /\ last.retrieved # <<>> => last.llm_requests = 1

C5_Witness ==
    /\ last.op = "ask_question"
    /\ ~IsBlank(last.question)
    /\ last.stored > 0
    /\ last.retrieved = <<>>
    /\ last.answer = NoInfoAnswer
    /\ last.llm_requests = 0

\* C6: on an empty index search_relevant_chunks returns [] without a request
\* to the embedding provider and without a query, for every non-blank question
\* and every n_results, whatever the cache holds.
C6_EmptyIndexShortCircuit ==
    (/\ last.op = "search_relevant_chunks"
     /\ last.stored = 0
     /\ ~IsBlank(last.question)) =>
        /\ last.value = <<>>
        /\ last.embed_requests = 0
        /\ last.queries = 0

\* The empty index searched with nothing cached for the question.
C6_Witness ==
    /\ last.op = "search_relevant_chunks"
    /\ last.stored = 0
    /\ ~IsBlank(last.question)
    /\ cache_file_of(last.question, default_model) \notin DOMAIN cache
    /\ last.value = <<>>

\* ------------------------------------------------------------------ claims: embeddings

LastFile == cache_file_of(last.text, last.model)

Checked == last.op = "get_embedding" /\ ~IsBlank(last.text)

FoundReadable == Checked /\ LastFile \in DOMAIN last.before /\ last.before[LastFile].npy

FoundCorrupt == Checked /\ LastFile \in DOMAIN last.before /\ ~last.before[LastFile].npy

\* C7: a get_embedding call that finds a readable entry for (text, model)
\* issues no request and returns the entry's vector; any other call issues
\* exactly one request, whether it succeeds or fails.
C7_OneRequestOrNone ==
    Checked =>
        /\ FoundReadable =>
                /\ last.requests = 0
                /\ ~last.raised
                /\ last.value = last.before[LastFile].data
        /\ ~FoundReadable => last.requests = 1

C7_Witness ==
    /\ FoundReadable
    /\ last.requests = 0
    /\ last.value \in Vectors

Keys == {<<t, m>> : t \in {HashedTexts[i] : i \in 1..Len(HashedTexts)}, m \in Models}

\* C9: a vector stored for (t, m) is what a later get_embedding(t, m) returns,
\* and a call for another text or another model is never served from that
\* entry: the file name is built from the exact text and the model.
C9_RoundTripAndSeparation ==
    Checked =>
        /\ \A v \in Vectors :
              (LastFile \in DOMAIN last.before /\ last.before[LastFile] = np_save(v)) =>
                  (~last.raised /\ last.value = v)
        /\ \A k \in Keys :
              k # <<last.text, last.model>> => cache_file_of(k[1], k[2]) # LastFile

\* A call served from the cache while the cache holds an entry of the same
\* text for the other model.
C9_Witness ==
    /\ FoundReadable
    /\ last.requests = 0
    /\ \E m \in Models \ {last.model} : cache_file_of(last.text, m) \in DOMAIN last.before

\* C10: when the request succeeds and the cache write fails, get_embedding
\* returns the provider's vector, as the same call does with the write
\* succeeding.
C10_WriteFailureAbsorbed ==
    (Checked /\ last.resp = "ok" /\ last.write = "failed") =>
        /\ ~last.raised
        /\ last.value = last.vec
        /\ \E o \in get_embedding(last.before, last.text, last.model) :
              /\ o.write = "saved"
              /\ o.vec = last.vec
              /\ o.raised = last.raised
              /\ o.value = last.value
              /\ o.error = last.error

C10_Witness ==
    /\ Checked
    /\ last.resp = "ok"
    /\ last.write = "failed"
    /\ last.value = last.vec

\* C11: get_embedding rejects a blank text with the validation error before
\* any cache lookup or request: no request is issued and the cache is left as
\* it was.
C11_BlankTextRejected ==
    (last.op = "get_embedding" /\ IsBlank(last.text)) =>
        /\ last.raised
        /\ last.error = <<"Text cannot be empty">>
        /\ last.requests = 0
        /\ last.after = last.before

\* A blank text rejected while the cache holds entries.
C11_Witness ==
    /\ last.op = "get_embedding"
    /\ IsBlank(last.text)
    /\ last.raised
    /\ last.before # <<>>

\* ------------------------------------------------------------------ claims: chunk_text

Chunked == last.op = "chunk_text"

\* The configurations the chunker is specified for
ValidConfig == Chunked /\ 0 <= last.overlap /\ last.overlap < last.chunk_size

\* The words of window j of the last call
Window(j) == Split(last.value[j])

\* C12: chunk_text signals a configuration error for every call with
\* overlap >= size, whatever the length of the text.
C12_BadOverlapSignalled ==
    (Chunked /\ last.overlap >= last.chunk_size) => last.raised

\* C13: for 0 <= overlap < size, the last `overlap` words of a window are the
\* first `overlap` words of the next one, for every pair of consecutive
\* windows but the pair that ends with the final window.
C13_ExactOverlap ==
    ValidConfig =>
        \A j \in 1..(Len(last.value) - 2) :
            /\ Len(Window(j)) >= last.overlap
            /\ Len(Window(j + 1)) >= last.overlap
            /\ SubSeq(Window(j), Len(Window(j)) - last.overlap + 1, Len(Window(j)))
                    = SubSeq(Window(j + 1), 1, last.overlap)

\* C14: for 0 <= overlap < size, chunk_text returns (it does not raise), every
\* window it returns holds at least one word and at most `size` words, and a
\* text without words gives the empty sequence.
C14_WindowsBounded ==
    ValidConfig =>
        /\ ~last.raised
        /\ \A j \in 1..Len(last.value) :
              /\ Len(Window(j)) >= 1
              /\ Len(Window(j)) <= last.chunk_size
        /\ Split(last.text) = <<>> => last.value = <<>>

\* Several windows, the first one full and the last one shorter.
C14_Witness ==
    /\ ValidConfig
    /\ Len(last.value) >= 3
    /\ Len(Window(1)) = last.chunk_size
    /\ Len(Window(Len(last.value))) < last.chunk_size

\* ------------------------------------------------------------------ claims: retrieval

Searched == last.op = "search_relevant_chunks"

\* The stored record with an id
RecordOf(id) == CHOOSE r \in Stored : r.id = id

\* C17: search_relevant_chunks returns at most min(k, count) results, the
\* j-th one being the j-th record the index returned with the similarity
\* 1 - distance to the query vector, so that the similarities do not increase
\* along the list.
C17_RankedAsReturned ==
    Searched =>
        /\ Len(last.value) <= Min(last.n_results, last.stored)
        /\ Len(last.value) <= Len(last.returned)
        /\ \A j \in 1..Len(last.value) :
              /\ last.value[j].text = RecordOf(last.returned[j]).document
              /\ last.value[j].metadata = RecordOf(last.returned[j]).metadata
              /\ last.value[j].similarity
                    = 10000 - Distance(last.qvec, RecordOf(last.returned[j]).embedding)
        /\ \A j \in 1..(Len(last.value) - 1) :
              last.value[j].similarity >= last.value[j + 1].similarity

\* Two results of different similarity.
C17_Witness ==
    /\ Searched
    /\ Len(last.value) = 2
    /\ last.stored = 2
    /\ last.value[1].similarity > last.value[2].similarity

\* C18: the context of an ask_question call that retrieved n fragments is, for
\* j = 1..n in the order retrieved, "Fragment j:" and a line break followed by
\* the text of the j-th fragment, the fragments separated by a blank line;
\* the sources of the reply are parallel to the fragments: as many as were
\* retrieved and as chunks_used says, the j-th naming the document of the
\* j-th fragment.
C18_ContextAndSources ==
    (last.op = "ask_question" /\ last.retrieved # <<>>) =>
        LET n == Len(last.retrieved)
        IN  /\ Len(last.context) = 5 * n - 1
            /\ \A j \in 1..n :
                  /\ last.context[5 * j - 4] = Lit("Fragment ")
                  /\ last.context[5 * j - 3] = Lit(DigitChar[j + 1])
                  /\ last.context[5 * j - 2] = Lit(":\n")
                  /\ last.context[5 * j - 1] = Txt(last.retrieved[j].text)
                  /\ j < n => last.context[5 * j] = Lit("\n\n")
            /\ last.llm = "ok" =>
                  /\ Len(last.sources) = n
                  /\ last.chunks_used = n
                  /\ \A j \in 1..n :
                        last.sources[j].document = last.retrieved[j].metadata.document

\* An answer generated from two different fragments.
C18_Witness ==
    /\ last.op = "ask_question"
    /\ last.llm = "ok"
    /\ Len(last.retrieved) = 2
    /\ last.retrieved[1].text # last.retrieved[2].text
    /\ last.chunks_used = 2

\* A window of the last call without the `overlap` words it starts with
Fresh(j) == SubSeq(Window(j), last.overlap + 1, Len(Window(j)))

\* The first window followed by what each of the windows 2..j adds
RECURSIVE Rebuilt(_)
Rebuilt(j) ==
    IF j = 0 THEN <<>>
    ELSE IF j = 1 THEN Window(1)
    ELSE Rebuilt(j - 1) \o Fresh(j)

\* C26: for 0 <= overlap < size chunking loses no word: every window is a run
\* of consecutive input words, the first window starts at the first word,
\* every input word lies in some window, and the first window followed by
\* the other windows without the words they share with their predecessor is
\* the input word sequence.
C26_NoWordLost ==
    ValidConfig =>
        LET words == Split(last.text)
            k     == Len(last.value)
        IN  /\ Rebuilt(k) = words
            /\ words # <<>> => (k >= 1 /\ Window(1)[1] = words[1])
            /\ \A j \in 1..k :
                  \E a \in 1..Len(words) :
                      Window(j) = SubSeq(words, a, a + Len(Window(j)) - 1)
            /\ \A p \in 1..Len(words) :
                  \E j \in 1..k : \E q \in 1..Len(Window(j)) :
                      Window(j)[q] = words[p]

\* Several windows of different words, the last one within its predecessor.
C26_Witness ==
    /\ ValidConfig
    /\ last.overlap >= 1
    /\ Len(last.value) >= 3
    /\ Fresh(Len(last.value)) = <<>>
    /\ Rebuilt(Len(last.value)) = Split(last.text)
    /\ \A p, q \in 1..Len(Split(last.text)) :
          p # q => Split(last.text)[p] # Split(last.text)[q]

\* ------------------------------------------------------------------ claims: chunk ids

\* Different (name, index) pairs have different ids.
ChunkIdInjective ==
    \A n1 \in IdNames, n2 \in IdNames :
        \A i1 \in 0..MaxChunkIndex, i2 \in 0..MaxChunkIndex :
            chunk_id(n1, i1) = chunk_id(n2, i2) => (n1 = n2 /\ i1 = i2)

\* C24: the ids "{name}_{index}" are unique: different (name, index) pairs
\* have different ids, also for names with underscores and digits; the ids of
\* one add_document call are pairwise different, and an id of the call that
\* was stored before belongs to a record of the same document name.
C24_IdsUnique ==
    /\ ChunkIdInjective
    /\ last.op = "add_document" =>
            /\ \A j, k \in 1..Len(last.batch) :
                  j # k => last.batch[j].id # last.batch[k].id
            /\ \A j \in 1..Len(last.batch) :
                  last.batch[j].id \in last.ids_before =>
                      RecordOf(last.batch[j].id).metadata.document = last.doc_id

\* The two-chunk document ingested a second time.
C24_Witness ==
    /\ last.op = "add_document"
    /\ Len(last.batch) = 2
    /\ last.batch[1].id # last.batch[2].id
    /\ last.batch[1].id \in last.ids_before
    /\ last.batch[2].id \in last.ids_before

====
